---- MODULE Spec2Model ----
(***************************************************************************)
(* Model of src/iqfit_mpi.cpp: the MPI-parallel exhaustive solver of the   *)
(* IQ-Fit tiling puzzle.                                                   *)
(*                                                                         *)
(* Representation choices.                                                 *)
(*  - A char is its character code (so s[i] - '0' and 'A' + p are plain    *)
(*    integer arithmetic, as in the source).                               *)
(*  - A std::vector is a sequence; element i of the source is element i+1  *)
(*    here (operator At).                                                  *)
(*  - A uint64_t board mask is the set of its set bit positions: OR is     *)
(*    union, AND is intersection, (mask >> c) & 1 is c \in mask.           *)
(*  - The static configuration (board size, piece table) is the variable   *)
(*    cfg, fixed by Init and never changed.  The search is exponential in  *)
(*    the instance, so the run is explored on reduced instances built from *)
(*    the source's own piece table; placement generation is explored on    *)
(*    the full 11 x 5, 12 piece instance as well.                          *)
(***************************************************************************)
EXTENDS Integers, Sequences, FiniteSets, TLC

VARIABLES
    cfg,              \* static configuration: [W, H, shapes]
    world_size,       \* MPI_Comm_size
    pc,               \* per rank: position in main
    pre,              \* per rank: position of precomputePlacements' loops
    placementMasks,   \* per rank: global table, [piece][placement] -> mask
    placementCells,   \* per rank: global table, [piece][placement] -> cells
    placementsByCell, \* per rank: global table, [piece][cell] -> placement ids
    i0,               \* per rank: loop variable of main's slice loop
    used,             \* per rank: std::array<bool, NUM_PIECES> of the iteration
    boardChars,       \* per rank: BoardChars of the iteration
    stack,            \* per rank: activation records of search
    localSolutions,   \* per rank: solutions found by this rank
    countMsg,         \* per rank: contribution to MPI_Gather (in flight)
    bufMsg,           \* per rank: contribution to MPI_Gatherv (in flight)
    allCounts,        \* rank 0: gathered counts
    displs,           \* rank 0: displacements
    recvBuf,          \* rank 0: combined receive buffer
    fileOpen,         \* rank 0: outcome of opening solutions.txt
    file,             \* contents of solutions.txt
    out,              \* per rank: what was written to std::cout
    err,              \* per rank: what was written to std::cerr
    exit,             \* per rank: exit status of main
    processed         \* per rank (history): the ids the slice loop's body ran for

vars == <<cfg, world_size, pc, pre, placementMasks, placementCells,
          placementsByCell, i0, used, boardChars, stack, localSolutions,
          countMsg, bufMsg, allCounts, displs, recvBuf, fileOpen, file,
          out, err, exit, processed>>

----------------------------------------------------------------------------
(* Bounds of the exploration *)

\* number of processes explored: world_size ranges over 1..MaxWorkers
MaxWorkers == 4
\* how many of the reduced instances (ReducedInstances) the run of all ranks
\* is explored on
NumInstances == 2
\* how many of them one rank's search and the placement generation are
\* explored on
NumSearchInstances == 5
\* longest string parseShape is explored on
MaxInputLen == 5

----------------------------------------------------------------------------
(* Static configuration *)

BOARD_WIDTH == 11
BOARD_HEIGHT == 5
NUM_PIECES == 12

CH_ZERO == 48      \* '0'
CH_DOT == 46       \* '.'
CH_A == 65         \* 'A'
CH_NL == 10        \* '\n'
CH_NUL == 0        \* value-initialised char
INT32_MAX == 2147483647
CH_SPACE == 32     \* ' '

\* the chars of the strings parseShape is explored on: '0', '1', ' '
InputChars == {CH_ZERO, CH_ZERO + 1, CH_SPACE}

pieceShapes == <<
    (*  0: "01 10 11 21 31" *) <<48,49,32,49,48,32,49,49,32,50,49,32,51,49>>,
    (*  1: "01 10 11 21 22" *) <<48,49,32,49,48,32,49,49,32,50,49,32,50,50>>,
    (*  2: "10 11 12 13 03" *) <<49,48,32,49,49,32,49,50,32,49,51,32,48,51>>,
    (*  3: "01 11 10 02"    *) <<48,49,32,49,49,32,49,48,32,48,50>>,
    (*  4: "00 01 02 12 13" *) <<48,48,32,48,49,32,48,50,32,49,50,32,49,51>>,
    (*  5: "02 12 11 21 20" *) <<48,50,32,49,50,32,49,49,32,50,49,32,50,48>>,
    (*  6: "02 12 11 10"    *) <<48,50,32,49,50,32,49,49,32,49,48>>,
    (*  7: "02 12 22 21 20" *) <<48,50,32,49,50,32,50,50,32,50,49,32,50,48>>,
    (*  8: "01 11 10"       *) <<48,49,32,49,49,32,49,48>>,
    (*  9: "01 02 11 12 10" *) <<48,49,32,48,50,32,49,49,32,49,50,32,49,48>>,
    (* 10: "01 11 10 21"    *) <<48,49,32,49,49,32,49,48,32,50,49>>,
    (* 11: "00 01 11 21 20" *) <<48,48,32,48,49,32,49,49,32,50,49,32,50,48>> >>

\* element i (0-based, as in the source) of a vector
At(v, i) == v[i + 1]

\* the instance of the source
FullInstance ==
    [W |-> BOARD_WIDTH, H |-> BOARD_HEIGHT, shapes |-> pieceShapes]

\* reduced instances: a smaller board and a sub-table of pieceShapes whose
\* cell counts add up to the board's, in the source's order
ReducedInstances == <<
    [W |-> 3, H |-> 3, shapes |-> <<At(pieceShapes, 10), At(pieceShapes, 11)>>],
    [W |-> 4, H |-> 3, shapes |-> <<At(pieceShapes, 0), At(pieceShapes, 6),
                                    At(pieceShapes, 8)>>],
    [W |-> 4, H |-> 3, shapes |-> <<At(pieceShapes, 2), At(pieceShapes, 3),
                                    At(pieceShapes, 8)>>],
    [W |-> 4, H |-> 3, shapes |-> <<At(pieceShapes, 6), At(pieceShapes, 8),
                                    At(pieceShapes, 9)>>],
    [W |-> 4, H |-> 4, shapes |-> <<At(pieceShapes, 5), At(pieceShapes, 6),
                                    At(pieceShapes, 8), At(pieceShapes, 10)>>],
    [W |-> 4, H |-> 4, shapes |-> <<At(pieceShapes, 2), At(pieceShapes, 3),
                                    At(pieceShapes, 6), At(pieceShapes, 8)>>],
    [W |-> 5, H |-> 3, shapes |-> <<At(pieceShapes, 3), At(pieceShapes, 6),
                                    At(pieceShapes, 8), At(pieceShapes, 10)>>] >>

\* a reduced instance in which piece 0 has 4 placements (and no cover exists):
\* ranks from 4 on have an empty slice
TightInstance ==
    [W |-> 4, H |-> 2, shapes |-> <<At(pieceShapes, 0), At(pieceShapes, 8)>>]

Min2(a, b) == IF a < b THEN a ELSE b
Max2(a, b) == IF a > b THEN a ELSE b

Width == cfg.W
Height == cfg.H
NumCells == cfg.W * cfg.H
NumPieces == Len(cfg.shapes)
Pieces == 0 .. (NumPieces - 1)
Cells == 0 .. (NumCells - 1)
Ranks == DOMAIN pc

----------------------------------------------------------------------------
(* parseShape *)

RECURSIVE parseShapeFrom(_, _)
parseShapeFrom(s, i) ==
    IF i + 1 < Len(s)
    THEN <<  <<At(s, i) - CH_ZERO, At(s, i + 1) - CH_ZERO>>  >>
         \o parseShapeFrom(s, i + 3)
    ELSE << >>

parseShape(s) == parseShapeFrom(s, 0)

----------------------------------------------------------------------------
(* generateOrientations *)

\* std::pair's operator<
PairLess(a, b) == a[1] < b[1] \/ (a[1] = b[1] /\ a[2] < b[2])

\* std::vector<std::pair>'s operator< (lexicographic)
RECURSIVE VecLessFrom(_, _, _)
VecLessFrom(u, v, k) ==
    IF k > Len(v) THEN FALSE
    ELSE IF k > Len(u) THEN TRUE
    ELSE IF PairLess(u[k], v[k]) THEN TRUE
    ELSE IF PairLess(v[k], u[k]) THEN FALSE
    ELSE VecLessFrom(u, v, k + 1)

VecLess(u, v) == VecLessFrom(u, v, 1)

\* insert x into the sorted sequence s
RECURSIVE InsertPair(_, _)
InsertPair(s, x) ==
    IF s = << >> THEN <<x>>
    ELSE IF PairLess(x, Head(s)) THEN <<x>> \o s
    ELSE <<Head(s)>> \o InsertPair(Tail(s), x)

\* std::sort of a coordinate list
RECURSIVE SortPairs(_)
SortPairs(s) ==
    IF s = << >> THEN << >> ELSE InsertPair(SortPairs(Tail(s)), Head(s))

\* rot successive quarter turns (x, y) -> (y, -x)
RECURSIVE Rotate(_, _)
Rotate(xy, rot) ==
    IF rot = 0 THEN xy ELSE Rotate(<<xy[2], -xy[1]>>, rot - 1)

\* the transformed list of one (reflect, rot) pair, before normalisation
Transform(base, reflect, rot) ==
    [k \in 1 .. Len(base) |->
        Rotate(<<IF reflect = 1 THEN -base[k][1] ELSE base[k][1], base[k][2]>>,
               rot)]

RECURSIVE MinCoord(_, _, _)
MinCoord(t, k, j) ==
    IF k > Len(t) THEN INT32_MAX ELSE Min2(t[k][j], MinCoord(t, k + 1, j))

\* translate to min x = 0, min y = 0 and sort
Normalize(t) ==
    LET minX == MinCoord(t, 1, 1)
        minY == MinCoord(t, 1, 2)
    IN  SortPairs([k \in 1 .. Len(t) |-> <<t[k][1] - minX, t[k][2] - minY>>])

\* faulty variant of uniqueShapes: the rotation loop stops one turn short
uniqueShapes_short(base) ==
    { Normalize(Transform(base, reflect, rot)) : reflect \in 0 .. 1, rot \in 0 .. 2 }

\* the std::set of the 8 normalised transforms
uniqueShapes(base) ==
    { Normalize(Transform(base, reflect, rot)) : reflect \in 0 .. 1, rot \in 0 .. 3 }

\* the elements of a std::set of coordinate lists, in its iteration order
RECURSIVE SetInOrder(_)
SetInOrder(S) ==
    IF S = {} THEN << >>
    ELSE LET m == CHOOSE x \in S : \A y \in S \ {x} : VecLess(x, y)
         IN  <<m>> \o SetInOrder(S \ {m})

generateOrientations(base) == SetInOrder(uniqueShapes(base))

----------------------------------------------------------------------------
(* precomputePlacements *)

RECURSIVE MaxCoord(_, _, _)
MaxCoord(shape, k, j) ==
    IF k > Len(shape) THEN 0 ELSE Max2(shape[k][j], MaxCoord(shape, k + 1, j))

\* faulty variant of shapeW: the width without the + 1
shapeW_short(shape) == MaxCoord(shape, 1, 1)
shapeW(shape) == MaxCoord(shape, 1, 1) + 1
shapeH(shape) == MaxCoord(shape, 1, 2) + 1

\* the loop nest "for shape ... for oy ... for ox ..." from (o, oy, ox) on:
\* the first position at which the body runs, o = Len(orientations) if none
RECURSIVE Seek(_, _, _, _)
Seek(orientations, o, oy, ox) ==
    IF o >= Len(orientations) THEN [o |-> Len(orientations), oy |-> 0, ox |-> 0]
    ELSE IF oy > Height - shapeH(At(orientations, o))
         THEN Seek(orientations, o + 1, 0, 0)
    ELSE IF ox > Width - shapeW(At(orientations, o))
         THEN Seek(orientations, o, oy + 1, 0)
    ELSE [o |-> o, oy |-> oy, ox |-> ox]

\* lines 106-113: the position as the loops for piece p begin; baseCoords and
\* orientations are the locals of those names
enterPiece(p) ==
    IF p >= NumPieces
    THEN [p |-> p, baseCoords |-> << >>, orientations |-> << >>,
          o |-> 0, oy |-> 0, ox |-> 0]
    ELSE LET baseCoords == parseShape(At(cfg.shapes, p))
             orientations == generateOrientations(baseCoords)
             at == Seek(orientations, 0, 0, 0)
         IN  [p |-> p, baseCoords |-> baseCoords, orientations |-> orientations,
              o |-> at.o, oy |-> at.oy, ox |-> at.ox]

\* the iteration the position stands at
iteration(pos) == [shape |-> At(pos.orientations, pos.o), oy |-> pos.oy, ox |-> pos.ox]

\* the loop over the shape's cells: cells collected so far, and whether the
\* index check failed (the loop breaks at the first failure)
RECURSIVE CellLoop(_, _, _)
CellLoop(it, k, cells) ==
    IF k > Len(it.shape) THEN [valid |-> TRUE, cells |-> cells]
    ELSE LET x == it.ox + it.shape[k][1]
             y == it.oy + it.shape[k][2]
             idx == y * Width + x
         IN  IF idx < 0 \/ idx >= NumCells
             THEN [valid |-> FALSE, cells |-> cells]
             ELSE CellLoop(it, k + 1, Append(cells, idx))

\* mask |= (1ULL << idx) over the collected cells
MaskOf(cells) == { cells[k] : k \in 1 .. Len(cells) }

\* faulty variant of Register: only the cell at j is registered
Register_first(byCell, cells, j, placementIndex) ==
    IF j > Len(cells) THEN byCell
    ELSE [byCell EXCEPT ![cells[j] + 1] = Append(@, placementIndex)]

\* "placementsByCell[p][idx].push_back(placementIndex)" for every cell
RECURSIVE Register(_, _, _, _)
Register(byCell, cells, j, placementIndex) ==
    IF j > Len(cells) THEN byCell
    ELSE Register([byCell EXCEPT ![cells[j] + 1] = Append(@, placementIndex)],
                  cells, j + 1, placementIndex)

\* the tables as constructed: NUM_PIECES empty vectors, and NUM_PIECES x
\* NUM_CELLS empty vectors
EmptyTables ==
    [masks  |-> [p \in 1 .. NumPieces |-> << >>],
     cells  |-> [p \in 1 .. NumPieces |-> << >>],
     byCell |-> [p \in 1 .. NumPieces |-> [c \in 1 .. NumCells |-> << >>]]]

\* one iteration of the innermost loop body for piece p
placeBody(t, p, it) ==
    LET res == CellLoop(it, 1, << >>)
        placementIndex == Len(t.masks[p + 1])
    IN  IF ~res.valid THEN t
        ELSE [masks  |-> [t.masks EXCEPT ![p + 1] = Append(@, MaskOf(res.cells))],
              cells  |-> [t.cells EXCEPT ![p + 1] = Append(@, res.cells)],
              byCell |-> [t.byCell EXCEPT ![p + 1] =
                             Register(@, res.cells, 1, placementIndex)]]

\* precomputePlacements is over
preDone(pos) == pos.p >= NumPieces
\* the loops of piece pos.p are over
pieceDone(pos) == pos.o >= Len(pos.orientations)

\* one step of precomputePlacements: the body at the position and the move to
\* the next one, or the move to the next piece
preStep(st) ==
    IF pieceDone(st.pos)
    THEN [pos |-> enterPiece(st.pos.p + 1), t |-> st.t]
    ELSE LET nx == Seek(st.pos.orientations, st.pos.o, st.pos.oy, st.pos.ox + 1)
         IN  [pos |-> [st.pos EXCEPT !.o = nx.o, !.oy = nx.oy, !.ox = nx.ox],
              t   |-> placeBody(st.t, st.pos.p, iteration(st.pos))]

RECURSIVE preRun(_)
preRun(st) ==
    IF preDone(st.pos) THEN st
    ELSE preRun(preStep(st))

\* the whole of precomputePlacements
precomputePlacements == preRun([pos |-> enterPiece(0), t |-> EmptyTables]).t

----------------------------------------------------------------------------
(* search *)

\* The worker state search acts on is ws = [stack, used, boardChars,
\* solutions]; T is the rank's placement tables.  A frame of the stack is one
\* activation of search: its by-value boardMask, its position at ("entry":
\* just called, "loop": at the head of the placement loop, "undo": its
\* recursive call has returned), its locals c, p and k (the position of idx
\* in placementsByCell[p][c]); entryUsed, entryChars and entryCount record
\* the by-reference arguments as they were when the call was made.

Frame(mask, ws) ==
    [boardMask |-> mask, at |-> "entry", c |-> 0, p |-> 0, k |-> 0,
     entryUsed |-> ws.used, entryChars |-> ws.boardChars,
     entryCount |-> Len(ws.solutions)]

Top(ws) == ws.stack[Len(ws.stack)]
Pop(ws) == [ws EXCEPT !.stack = SubSeq(@, 1, Len(@) - 1)]
SetTop(ws, f) == [ws EXCEPT !.stack[Len(ws.stack)] = f]

\* "while (c < NUM_CELLS && ((boardMask >> c) & 1ULL)) ++c"
RECURSIVE FirstEmpty(_, _)
FirstEmpty(mask, c) ==
    IF c < NumCells /\ c \in mask THEN FirstEmpty(mask, c + 1) ELSE c

\* write ch into every cell of a placement
RECURSIVE Paint(_, _, _, _)
Paint(chars, cells, j, ch) ==
    IF j > Len(cells) THEN chars
    ELSE Paint([chars EXCEPT ![cells[j] + 1] = ch], cells, j + 1, ch)

\* lines 167-185: the done test, the scan for the first empty cell
searchEntry(T, ws) ==
    LET f == Top(ws)
        done == \A i \in 1 .. NumPieces : ws.used[i]
        c == FirstEmpty(f.boardMask, 0)
    IN  IF done
        THEN Pop([ws EXCEPT !.solutions = Append(@, ws.boardChars)])
        ELSE IF c >= NumCells THEN Pop(ws)
        ELSE SetTop(ws, [f EXCEPT !.at = "loop", !.c = c, !.p = 0, !.k = 0])

\* faulty variant of Scan: no overlap test
RECURSIVE Scan_nooverlap(_, _, _, _, _)
Scan_nooverlap(T, ws, f, p, k) ==
    IF p >= NumPieces THEN [p |-> p, k |-> 0]
    ELSE IF ws.used[p + 1] THEN Scan_nooverlap(T, ws, f, p + 1, 0)
    ELSE IF k >= Len(T.byCell[p + 1][f.c + 1]) THEN Scan_nooverlap(T, ws, f, p + 1, 0)
    ELSE [p |-> p, k |-> k]

\* faulty variant of Scan: no "if (used[p]) continue"
RECURSIVE Scan_reuse(_, _, _, _, _)
Scan_reuse(T, ws, f, p, k) ==
    IF p >= NumPieces THEN [p |-> p, k |-> 0]
    ELSE IF k >= Len(T.byCell[p + 1][f.c + 1]) THEN Scan_reuse(T, ws, f, p + 1, 0)
    ELSE LET idx == At(T.byCell[p + 1][f.c + 1], k)
             pmask == At(T.masks[p + 1], idx)
         IN  IF (pmask \cap f.boardMask) # {} THEN Scan_reuse(T, ws, f, p, k + 1)
             ELSE [p |-> p, k |-> k]

\* lines 188-194: the next (p, k) from (p, k) on that is an unused piece's
\* placement covering c and not overlapping the board; p = NumPieces if none
RECURSIVE Scan(_, _, _, _, _)
Scan(T, ws, f, p, k) ==
    IF p >= NumPieces THEN [p |-> p, k |-> 0]
    ELSE IF ws.used[p + 1] THEN Scan(T, ws, f, p + 1, 0)
    ELSE IF k >= Len(T.byCell[p + 1][f.c + 1]) THEN Scan(T, ws, f, p + 1, 0)
    ELSE LET idx == At(T.byCell[p + 1][f.c + 1], k)
             pmask == At(T.masks[p + 1], idx)
         IN  IF (pmask \cap f.boardMask) # {} THEN Scan(T, ws, f, p, k + 1)
             ELSE [p |-> p, k |-> k]

\* faulty variant of commit: the letter is taken from the depth of the
\* recursion (the number of pieces committed so far), not from the piece
commit_bydepth(T, ws, f, p, k) ==
    LET idx == At(T.byCell[p + 1][f.c + 1], k)
        pmask == At(T.masks[p + 1], idx)
        newMask == f.boardMask \cup pmask
        ws1 == [ws EXCEPT !.used[p + 1] = TRUE,
                          !.boardChars = Paint(@, At(T.cells[p + 1], idx), 1,
                                               CH_A + Len(ws.stack))]
        ws2 == SetTop(ws1, [f EXCEPT !.at = "undo", !.p = p, !.k = k])
    IN  [ws2 EXCEPT !.stack = Append(@, Frame(newMask, ws2))]

\* lines 195-203: place the piece and call search on the new mask
commit(T, ws, f, p, k) ==
    LET idx == At(T.byCell[p + 1][f.c + 1], k)
        pmask == At(T.masks[p + 1], idx)
        newMask == f.boardMask \cup pmask
        ws1 == [ws EXCEPT !.used[p + 1] = TRUE,
                          !.boardChars = Paint(@, At(T.cells[p + 1], idx), 1, CH_A + p)]
        ws2 == SetTop(ws1, [f EXCEPT !.at = "undo", !.p = p, !.k = k])
    IN  [ws2 EXCEPT !.stack = Append(@, Frame(newMask, ws2))]

\* lines 188-211: continue the loops to the next commit, or return
searchLoop(T, ws) ==
    LET f == Top(ws)
        n == Scan(T, ws, f, f.p, f.k)
    IN  IF n.p >= NumPieces THEN Pop(ws) ELSE commit(T, ws, f, n.p, n.k)

\* faulty variant of searchUndo: the piece stays marked used
searchUndo_keepused(T, ws) ==
    LET f == Top(ws)
        idx == At(T.byCell[f.p + 1][f.c + 1], f.k)
        ws1 == [ws EXCEPT !.boardChars = Paint(@, At(T.cells[f.p + 1], idx), 1, CH_DOT)]
    IN  SetTop(ws1, [f EXCEPT !.at = "loop", !.k = f.k + 1])

\* faulty variant of searchUndo: the cells are not reset to '.'
searchUndo_keepchars(T, ws) ==
    LET f == Top(ws)
        ws1 == [ws EXCEPT !.used[f.p + 1] = FALSE]
    IN  SetTop(ws1, [f EXCEPT !.at = "loop", !.k = f.k + 1])

\* lines 204-209: backtrack after the recursive call
searchUndo(T, ws) ==
    LET f == Top(ws)
        idx == At(T.byCell[f.p + 1][f.c + 1], f.k)
        ws1 == [ws EXCEPT !.used[f.p + 1] = FALSE,
                          !.boardChars = Paint(@, At(T.cells[f.p + 1], idx), 1, CH_DOT)]
    IN  SetTop(ws1, [f EXCEPT !.at = "loop", !.k = f.k + 1])

searchStep(T, ws) ==
    CASE Top(ws).at = "entry" -> searchEntry(T, ws)
      [] Top(ws).at = "loop"  -> searchLoop(T, ws)
      [] Top(ws).at = "undo"  -> searchUndo(T, ws)

\* a call of search run until it returns to main
RECURSIVE search(_, _)
search(T, ws) == IF ws.stack = << >> THEN ws ELSE search(T, searchStep(T, ws))

----------------------------------------------------------------------------
(* main: the slice loop *)

Tables(r) == [masks |-> placementMasks[r], cells |-> placementCells[r],
              byCell |-> placementsByCell[r]]
Worker(r) == [stack |-> stack[r], used |-> used[r],
              boardChars |-> boardChars[r], solutions |-> localSolutions[r]]

\* faulty variant of totalPlacements0: the loop bound one short
totalPlacements0_short(r) == Len(placementMasks[r][1]) - 1
totalPlacements0(r) == Len(placementMasks[r][1])

\* faulty variants of sliceFirst and sliceNext: every rank starts at id 0;
\* the stride is 1
sliceFirst_zero(rank) == 0
sliceNext_one(i, n) == i + 1

\* line 242: "i0 = world_rank" and "i0 += world_size"
sliceFirst(rank) == rank
sliceNext(i, n) == i + n

boardCharsInit == [c \in 1 .. NumCells |-> CH_DOT]
usedInit == [p \in 1 .. NumPieces |-> FALSE]

\* faulty variant of startIter: piece 0 is placed but not marked used
startIter_unmarked(T, id, solutions) ==
    LET ws == [stack |-> << >>,
               used |-> usedInit,
               boardChars |-> Paint(boardCharsInit, At(T.cells[1], id), 1, CH_A),
               solutions |-> solutions]
    IN  [ws EXCEPT !.stack = <<Frame(At(T.masks[1], id), ws)>>]

\* lines 243-257 up to the call: a fresh board with piece 0 at placement id
startIter(T, id, solutions) ==
    LET ws == [stack |-> << >>,
               used |-> [usedInit EXCEPT ![1] = TRUE],
               boardChars |-> Paint(boardCharsInit, At(T.cells[1], id), 1, CH_A),
               solutions |-> solutions]
    IN  [ws EXCEPT !.stack = <<Frame(At(T.masks[1], id), ws)>>]

\* lines 242-259 as a whole: the local solution list of a rank of n, from
\* loop variable i on
RECURSIVE sliceLoop(_, _, _, _)
sliceLoop(T, i, n, solutions) ==
    IF i >= Len(T.masks[1]) THEN solutions
    ELSE sliceLoop(T, sliceNext(i, n), n, search(T, startIter(T, i, solutions)).solutions)

----------------------------------------------------------------------------
(* main: aggregation helpers *)

RECURSIVE Flatten(_)
\* lines 272-276: the local solutions as one flat buffer
Flatten(sols) == IF sols = << >> THEN << >> ELSE Head(sols) \o Flatten(Tail(sols))

\* faulty variant of SumSeq: the sum starts after the first element
RECURSIVE SumSeq_skipfirst(_)
SumSeq_skipfirst(v) ==
    IF Len(v) <= 1 THEN 0 ELSE v[Len(v)] + SumSeq_skipfirst(SubSeq(v, 1, Len(v) - 1))

RECURSIVE SumSeq(_)
\* std::accumulate
SumSeq(v) == IF v = << >> THEN 0 ELSE Head(v) + SumSeq(Tail(v))

\* faulty variant of OffsetBefore: the offset advances by the count, not by
\* the count times NUM_CELLS
RECURSIVE OffsetBefore_nocells(_, _)
OffsetBefore_nocells(counts, i) ==
    IF i = 0 THEN 0 ELSE OffsetBefore_nocells(counts, i - 1) + At(counts, i - 1)

\* lines 285-290: offset before rank i (0-based) given the gathered counts
RECURSIVE OffsetBefore(_, _)
OffsetBefore(counts, i) ==
    IF i = 0 THEN 0 ELSE OffsetBefore(counts, i - 1) + At(counts, i - 1) * NumCells

recvCountsOf(counts) == [i \in 1 .. Len(counts) |-> counts[i] * NumCells]
displsOf(counts) == [i \in 1 .. Len(counts) |-> OffsetBefore(counts, i - 1)]

\* MPI_Gatherv at the root: rank i's n bytes are stored from displs[i] on
RECURSIVE Deposit(_, _, _, _, _)
Deposit(buf, data, counts, ds, i) ==
    IF i > Len(counts) THEN buf
    ELSE Deposit([k \in 1 .. Len(buf) |->
                     IF ds[i] < k /\ k <= ds[i] + counts[i]
                     THEN data[i - 1][1][k - ds[i]] ELSE buf[k]],
                 data, counts, ds, i + 1)

\* lines 312-318: one solution record of the file, read from the receive
\* buffer at boardPtr (0-based)
RECURSIVE RecordFrom(_, _, _)
RecordFrom(buf, boardPtr, row) ==
    IF row >= Height THEN <<CH_NL>>
    ELSE SubSeq(buf, boardPtr + row * Width + 1, boardPtr + row * Width + Width)
         \o <<CH_NL>> \o RecordFrom(buf, boardPtr, row + 1)

\* faulty variant of FileFrom: boardPtr without the record stride
RECURSIVE FileFrom_nostride(_, _, _, _, _)
FileFrom_nostride(buf, counts, ds, r, s) ==
    IF r >= Len(counts) THEN << >>
    ELSE IF s >= At(counts, r) THEN FileFrom_nostride(buf, counts, ds, r + 1, 0)
    ELSE RecordFrom(buf, At(ds, r) + s, 0)
         \o FileFrom_nostride(buf, counts, ds, r, s + 1)

\* lines 308-320: the records of rank r from solution s on, then the ranks after
RECURSIVE FileFrom(_, _, _, _, _)
FileFrom(buf, counts, ds, r, s) ==
    IF r >= Len(counts) THEN << >>
    ELSE IF s >= At(counts, r) THEN FileFrom(buf, counts, ds, r + 1, 0)
    ELSE RecordFrom(buf, At(ds, r) + s * NumCells, 0)
         \o FileFrom(buf, counts, ds, r, s + 1)

----------------------------------------------------------------------------
(* Actions *)

\* lines 215-242: precomputePlacements as a whole, then the loop's init
Precompute(r) ==
    /\ pc[r] = "start"
    /\ \E t \in {precomputePlacements} :
           /\ placementMasks' = [placementMasks EXCEPT ![r] = t.masks]
           /\ placementCells' = [placementCells EXCEPT ![r] = t.cells]
           /\ placementsByCell' = [placementsByCell EXCEPT ![r] = t.byCell]
    /\ i0' = [i0 EXCEPT ![r] = sliceFirst(r)]
    /\ pc' = [pc EXCEPT ![r] = "loop"]
    /\ UNCHANGED <<cfg, world_size, pre, used, boardChars, stack, localSolutions,
                   countMsg, bufMsg, allCounts, displs, recvBuf, fileOpen, file,
                   out, err, exit, processed>>

\* lines 242-259: one iteration of the slice loop, the search call included
LoopIter(r) ==
    /\ pc[r] = "loop"
    /\ i0[r] < totalPlacements0(r)
    /\ \E ws \in {search(Tables(r), startIter(Tables(r), i0[r], localSolutions[r]))} :
           localSolutions' = [localSolutions EXCEPT ![r] = ws.solutions]
    /\ i0' = [i0 EXCEPT ![r] = sliceNext(@, world_size)]
    /\ UNCHANGED <<cfg, world_size, pc, pre, placementMasks, placementCells,
                   placementsByCell, used, boardChars, stack,
                   countMsg, bufMsg, allCounts, displs, recvBuf, fileOpen, file,
                   out, err, exit>>
    /\ processed' = [processed EXCEPT ![r] = Append(@, i0[r])]

\* faulty variant of GatherSend: a rank whose slice was empty skips the
\* collectives
GatherSend_skipidle(r) ==
    /\ pc[r] = "loop"
    /\ i0[r] >= totalPlacements0(r)
    /\ IF r # 0 /\ processed[r] = << >>
       THEN /\ pc' = [pc EXCEPT ![r] = "finalize"]
            /\ UNCHANGED <<countMsg, allCounts>>
       ELSE /\ countMsg' = [countMsg EXCEPT ![r] = <<Len(localSolutions[r])>>]
            /\ IF r = 0
               THEN /\ allCounts' = [i \in 1 .. world_size |-> 0]
                    /\ pc' = [pc EXCEPT ![r] = "gather_wait"]
               ELSE /\ pc' = [pc EXCEPT ![r] = "gatherv"]
                    /\ UNCHANGED allCounts
    /\ UNCHANGED <<cfg, world_size, pre, placementMasks, placementCells,
                   placementsByCell, i0, used, boardChars, stack, localSolutions,
                   bufMsg, displs, recvBuf, fileOpen, file, out, err, exit, processed>>

\* lines 262-269: the loop is over; contribute localCount to MPI_Gather.
\* A rank other than 0 returns once its count is sent; rank 0 waits.
GatherSend(r) ==
    /\ pc[r] = "loop"
    /\ i0[r] >= totalPlacements0(r)
    /\ countMsg' = [countMsg EXCEPT ![r] = <<Len(localSolutions[r])>>]
    /\ IF r = 0
       THEN /\ allCounts' = [i \in 1 .. world_size |-> 0]
            /\ pc' = [pc EXCEPT ![r] = "gather_wait"]
       ELSE /\ pc' = [pc EXCEPT ![r] = "gatherv"]
            /\ UNCHANGED allCounts
    /\ UNCHANGED <<cfg, world_size, pre, placementMasks, placementCells,
                   placementsByCell, i0, used, boardChars, stack, localSolutions,
                   bufMsg, displs, recvBuf, fileOpen, file, out, err, exit, processed>>

\* faulty variant of GatherRecv: rank 0 goes on once its own count is in,
\* taking the counts not yet contributed as 0
GatherRecv_early ==
    /\ pc[0] = "gather_wait"
    /\ countMsg[0] # << >>
    /\ allCounts' = [i \in 1 .. world_size |->
                        IF countMsg[i - 1] = << >> THEN 0 ELSE countMsg[i - 1][1]]
    /\ pc' = [pc EXCEPT ![0] = "gatherv"]
    /\ UNCHANGED <<cfg, world_size, pre, placementMasks, placementCells,
                   placementsByCell, i0, used, boardChars, stack, localSolutions,
                   countMsg, bufMsg, displs, recvBuf, fileOpen, file, out, err,
                   exit, processed>>

\* MPI_Gather completes at rank 0 when every rank has contributed
GatherRecv ==
    /\ pc[0] = "gather_wait"
    /\ \A r \in Ranks : countMsg[r] # << >>
    /\ allCounts' = [i \in 1 .. world_size |-> countMsg[i - 1][1]]
    /\ pc' = [pc EXCEPT ![0] = "gatherv"]
    /\ UNCHANGED <<cfg, world_size, pre, placementMasks, placementCells,
                   placementsByCell, i0, used, boardChars, stack, localSolutions,
                   countMsg, bufMsg, displs, recvBuf, fileOpen, file, out, err,
                   exit, processed>>

\* lines 271-299: flatten the local solutions and contribute them to
\* MPI_Gatherv; rank 0 first sets up recvCounts, displs and recvBuf
GathervSend(r) ==
    /\ pc[r] = "gatherv"
    /\ bufMsg' = [bufMsg EXCEPT ![r] = <<Flatten(localSolutions[r])>>]
    /\ IF r = 0
       THEN /\ displs' = displsOf(allCounts)
            /\ recvBuf' = [k \in 1 .. OffsetBefore(allCounts, world_size) |-> CH_NUL]
            /\ pc' = [pc EXCEPT ![r] = "gatherv_wait"]
       ELSE /\ pc' = [pc EXCEPT ![r] = "finalize"]
            /\ UNCHANGED <<displs, recvBuf>>
    /\ UNCHANGED <<cfg, world_size, pre, placementMasks, placementCells,
                   placementsByCell, i0, used, boardChars, stack, localSolutions,
                   countMsg, allCounts, fileOpen, file, out, err, exit, processed>>

\* MPI_Gatherv completes at rank 0 when every rank has contributed
GathervRecv ==
    /\ pc[0] = "gatherv_wait"
    /\ \A r \in Ranks : bufMsg[r] # << >>
    /\ recvBuf' = Deposit(recvBuf, bufMsg, recvCountsOf(allCounts), displs, 1)
    /\ pc' = [pc EXCEPT ![0] = "write"]
    /\ UNCHANGED <<cfg, world_size, pre, placementMasks, placementCells,
                   placementsByCell, i0, used, boardChars, stack, localSolutions,
                   countMsg, bufMsg, allCounts, displs, fileOpen, file, out, err,
                   exit, processed>>

\* lines 302-329 when solutions.txt opens: the records, the total, the time
WriteOutput ==
    /\ pc[0] = "write"
    /\ fileOpen' = "open"
    /\ file' = FileFrom(recvBuf, allCounts, displs, 0, 0)
    /\ out' = [out EXCEPT ![0] = @ \o << <<"total", SumSeq(allCounts)>>, <<"elapsed">> >>]
    /\ pc' = [pc EXCEPT ![0] = "finalize"]
    /\ UNCHANGED <<cfg, world_size, pre, placementMasks, placementCells,
                   placementsByCell, i0, used, boardChars, stack, localSolutions,
                   countMsg, bufMsg, allCounts, displs, recvBuf, err, exit, processed>>

\* lines 302-329 when solutions.txt does not open: the error, the time
OpenFailed ==
    /\ pc[0] = "write"
    /\ fileOpen' = "failed"
    /\ err' = [err EXCEPT ![0] = Append(@, "open_failed")]
    /\ out' = [out EXCEPT ![0] = Append(@, <<"elapsed">>)]
    /\ pc' = [pc EXCEPT ![0] = "finalize"]
    /\ UNCHANGED <<cfg, world_size, pre, placementMasks, placementCells,
                   placementsByCell, i0, used, boardChars, stack, localSolutions,
                   countMsg, bufMsg, allCounts, displs, recvBuf, file, exit, processed>>

\* faulty variant of Finalize: the open failure becomes exit status 1
Finalize_propagate(r) ==
    /\ pc[r] = "finalize"
    /\ exit' = [exit EXCEPT ![r] = IF r = 0 /\ fileOpen = "failed" THEN 1 ELSE 0]
    /\ pc' = [pc EXCEPT ![r] = "done"]
    /\ UNCHANGED <<cfg, world_size, pre, placementMasks, placementCells,
                   placementsByCell, i0, used, boardChars, stack, localSolutions,
                   countMsg, bufMsg, allCounts, displs, recvBuf, fileOpen, file,
                   out, err, processed>>

\* lines 331-332: MPI_Finalize, return 0
Finalize(r) ==
    /\ pc[r] = "finalize"
    /\ exit' = [exit EXCEPT ![r] = 0]
    /\ pc' = [pc EXCEPT ![r] = "done"]
    /\ UNCHANGED <<cfg, world_size, pre, placementMasks, placementCells,
                   placementsByCell, i0, used, boardChars, stack, localSolutions,
                   countMsg, bufMsg, allCounts, displs, recvBuf, fileOpen, file,
                   out, err, processed>>

----------------------------------------------------------------------------
(* The run of all ranks *)

\* the state of the given ranks as main begins, for a configuration and a
\* worker count
InitWith(c, n, rs) ==
    /\ cfg = c
    /\ world_size = n
    /\ pc = [r \in rs |-> "start"]
    /\ pre = [r \in rs |-> [p |-> 0, baseCoords |-> << >>, orientations |-> << >>,
                             o |-> 0, oy |-> 0, ox |-> 0]]
    /\ placementMasks = [r \in rs |-> [p \in 1 .. Len(c.shapes) |-> << >>]]
    /\ placementCells = [r \in rs |-> [p \in 1 .. Len(c.shapes) |-> << >>]]
    /\ placementsByCell =
          [r \in rs |-> [p \in 1 .. Len(c.shapes) |-> [x \in 1 .. c.W * c.H |-> << >>]]]
    /\ i0 = [r \in rs |-> 0]
    /\ used = [r \in rs |-> [p \in 1 .. Len(c.shapes) |-> FALSE]]
    /\ boardChars = [r \in rs |-> [x \in 1 .. c.W * c.H |-> CH_DOT]]
    /\ stack = [r \in rs |-> << >>]
    /\ localSolutions = [r \in rs |-> << >>]
    /\ countMsg = [r \in rs |-> << >>]
    /\ bufMsg = [r \in rs |-> << >>]
    /\ allCounts = << >>
    /\ displs = << >>
    /\ recvBuf = << >>
    /\ fileOpen = "unopened"
    /\ file = << >>
    /\ out = [r \in rs |-> << >>]
    /\ err = [r \in rs |-> << >>]
    /\ exit = [r \in rs |-> -1]
    /\ processed = [r \in rs |-> << >>]

Init ==
    \E k \in 1 .. NumInstances, n \in 1 .. MaxWorkers :
        InitWith(ReducedInstances[k], n, 0 .. (n - 1))

Next ==
    \/ \E r \in Ranks : Precompute(r)
    \/ \E r \in Ranks : LoopIter(r)
    \/ \E r \in Ranks : GatherSend(r)
    \/ GatherRecv
    \/ \E r \in Ranks : GathervSend(r)
    \/ GathervRecv
    \/ WriteOutput
    \/ OpenFailed
    \/ \E r \in Ranks : Finalize(r)

Spec == Init /\ [][Next]_vars

----------------------------------------------------------------------------
(* The run of all ranks with more ranks than placements of piece 0, under   *)
(* the scheduling of the processes: every rank that can take a step of main *)
(* eventually takes one                                                     *)

\* the local computation of rank r: the placement tables and the slice loop
RankCompute(r) == r \in Ranks /\ (Precompute(r) \/ LoopIter(r))

\* the communication and exit steps of rank r; the completion of a collective
\* at the root, and the output that follows it, are steps of rank 0
RankComm(r) ==
    /\ r \in Ranks
    /\ \/ GatherSend(r)
       \/ GathervSend(r)
       \/ Finalize(r)
       \/ (r = 0 /\ (GatherRecv \/ GathervRecv \/ WriteOutput \/ OpenFailed))

LiveInit ==
    \/ \E n \in 1 .. (MaxWorkers + 1) : InitWith(TightInstance, n, 0 .. (n - 1))
    \/ \E n \in 1 .. MaxWorkers : InitWith(ReducedInstances[1], n, 0 .. (n - 1))

\* rank r has local computation left: the enabling condition of
\* RankCompute(r), the tables not yet built or an index of the slice left
CanCompute(r) ==
    /\ r \in Ranks
    /\ (pc[r] = "start" \/ (pc[r] = "loop" /\ i0[r] < totalPlacements0(r)))

\* the position of rank r changes in the step, as it does in every step of
\* RankCompute(r)
Moved(r) == r \in Ranks /\ (pc'[r] # pc[r] \/ i0'[r] # i0[r])

\* weak fairness of RankCompute(r), that is WF_vars(RankCompute(r)), with its
\* ENABLED written out as CanCompute(r): a process that can run is not
\* suspended forever
FairCompute(r) ==
    []<>(~CanCompute(r)) \/ []<><<Moved(r) /\ RankCompute(r)>>_vars

LiveSpec ==
    /\ LiveInit
    /\ [][Next]_vars
    /\ \A r \in 0 .. MaxWorkers : FairCompute(r) /\ WF_vars(RankComm(r))

----------------------------------------------------------------------------
(* One rank's slice loop, search taken step by step *)

SetWorker(r, ws) ==
    /\ stack' = [stack EXCEPT ![r] = ws.stack]
    /\ used' = [used EXCEPT ![r] = ws.used]
    /\ boardChars' = [boardChars EXCEPT ![r] = ws.boardChars]
    /\ localSolutions' = [localSolutions EXCEPT ![r] = ws.solutions]

\* lines 242-257: the loop test, the fresh board with piece 0, the call
StartIter(r) ==
    /\ pc[r] = "loop"
    /\ i0[r] < totalPlacements0(r)
    /\ \E ws \in {startIter(Tables(r), i0[r], localSolutions[r])} : SetWorker(r, ws)
    /\ pc' = [pc EXCEPT ![r] = "search"]
    /\ UNCHANGED <<cfg, world_size, pre, placementMasks, placementCells,
                   placementsByCell, i0, countMsg, bufMsg, allCounts, displs,
                   recvBuf, fileOpen, file, out, err, exit>>
    /\ processed' = [processed EXCEPT ![r] = Append(@, i0[r])]

\* a step of search at the given position of its top activation
SearchAt(r, at) ==
    /\ pc[r] = "search"
    /\ stack[r] # << >>
    /\ Top(Worker(r)).at = at
    /\ \E ws \in {searchStep(Tables(r), Worker(r))} : SetWorker(r, ws)
    /\ UNCHANGED <<cfg, world_size, pc, pre, placementMasks, placementCells,
                   placementsByCell, i0, countMsg, bufMsg, allCounts, displs,
                   recvBuf, fileOpen, file, out, err, exit, processed>>

SearchEntry(r) == SearchAt(r, "entry")
SearchLoop(r) == SearchAt(r, "loop")
SearchUndo(r) == SearchAt(r, "undo")

\* lines 257-259 and 242: search has returned to main; i0 += world_size
EndIter(r) ==
    /\ pc[r] = "search"
    /\ stack[r] = << >>
    /\ i0' = [i0 EXCEPT ![r] = sliceNext(@, world_size)]
    /\ pc' = [pc EXCEPT ![r] = "loop"]
    /\ UNCHANGED <<cfg, world_size, pre, placementMasks, placementCells,
                   placementsByCell, used, boardChars, stack, localSolutions,
                   countMsg, bufMsg, allCounts, displs, recvBuf, fileOpen, file,
                   out, err, exit, processed>>

\* one rank of a run of n, for every n and rank
SearchInit ==
    \E k \in 1 .. NumSearchInstances, n \in 1 .. MaxWorkers, r \in 0 .. (MaxWorkers - 1) :
        /\ r < n
        /\ InitWith(ReducedInstances[k], n, {r})

SearchNext ==
    \/ \E r \in Ranks : Precompute(r)
    \/ \E r \in Ranks : StartIter(r)
    \/ \E r \in Ranks : SearchEntry(r)
    \/ \E r \in Ranks : SearchLoop(r)
    \/ \E r \in Ranks : SearchUndo(r)
    \/ \E r \in Ranks : EndIter(r)

SearchSpec == SearchInit /\ [][SearchNext]_vars

----------------------------------------------------------------------------
(* precomputePlacements taken iteration by iteration *)

SetTables(r, t) ==
    /\ placementMasks' = [placementMasks EXCEPT ![r] = t.masks]
    /\ placementCells' = [placementCells EXCEPT ![r] = t.cells]
    /\ placementsByCell' = [placementsByCell EXCEPT ![r] = t.byCell]

\* line 225 and 106-113: the call, the loops of piece 0 begin
PlaceBegin(r) ==
    /\ pc[r] = "start"
    /\ pre' = [pre EXCEPT ![r] = enterPiece(0)]
    /\ pc' = [pc EXCEPT ![r] = "precompute"]
    /\ UNCHANGED <<cfg, world_size, placementMasks, placementCells,
                   placementsByCell, i0, used, boardChars, stack, localSolutions,
                   countMsg, bufMsg, allCounts, displs, recvBuf, fileOpen, file,
                   out, err, exit, processed>>

\* a step of precomputePlacements, at the end of a piece's loops or not
PlaceAt(r, atEnd) ==
    /\ pc[r] = "precompute"
    /\ ~preDone(pre[r])
    /\ pieceDone(pre[r]) = atEnd
    /\ \E st \in {preStep([pos |-> pre[r], t |-> Tables(r)])} :
           /\ pre' = [pre EXCEPT ![r] = st.pos]
           /\ SetTables(r, st.t)
    /\ UNCHANGED <<cfg, world_size, pc, i0, used, boardChars, stack,
                   localSolutions, countMsg, bufMsg, allCounts, displs, recvBuf,
                   fileOpen, file, out, err, exit, processed>>

\* lines 128-151: one iteration of the innermost loop
PlaceBody(r) == PlaceAt(r, FALSE)
\* lines 106-113: the next piece
PlaceNextPiece(r) == PlaceAt(r, TRUE)

\* precomputePlacements returns; lines 228-242
PlaceEnd(r) ==
    /\ pc[r] = "precompute"
    /\ preDone(pre[r])
    /\ i0' = [i0 EXCEPT ![r] = sliceFirst(r)]
    /\ pc' = [pc EXCEPT ![r] = "loop"]
    /\ UNCHANGED <<cfg, world_size, pre, placementMasks, placementCells,
                   placementsByCell, used, boardChars, stack, localSolutions,
                   countMsg, bufMsg, allCounts, displs, recvBuf, fileOpen, file,
                   out, err, exit, processed>>

\* the source's instance and the reduced ones, on one rank
PlaceInit ==
    \E c \in {FullInstance} \cup {ReducedInstances[k] : k \in 1 .. NumSearchInstances} :
        InitWith(c, 1, {0})

PlaceNext ==
    \/ \E r \in Ranks : PlaceBegin(r)
    \/ \E r \in Ranks : PlaceBody(r)
    \/ \E r \in Ranks : PlaceNextPiece(r)
    \/ \E r \in Ranks : PlaceEnd(r)

PlaceSpec == PlaceInit /\ [][PlaceNext]_vars

----------------------------------------------------------------------------
(* parseShape on arbitrary strings: precomputePlacements run on a table of  *)
(* one string drawn from the strings of digits and spaces of bounded length *)

\* the strings over InputChars of 1 to MaxInputLen chars
Inputs == UNION { [1 .. n -> InputChars] : n \in 1 .. MaxInputLen }

ParseInit ==
    \E s \in Inputs : InitWith([W |-> 2, H |-> 2, shapes |-> <<s>>], 1, {0})

ParseSpec == ParseInit /\ [][PlaceNext]_vars

----------------------------------------------------------------------------
(* Vocabulary of the properties *)

Letters == CH_A .. (CH_A + NumPieces - 1)
CellSet(cells) == { cells[k] : k \in 1 .. Len(cells) }
SeqSet(q) == { q[k] : k \in 1 .. Len(q) }
NoDuplicates(q) == \A a, b \in 1 .. Len(q) : a # b => q[a] # q[b]
IsPrefix(u, v) == Len(u) <= Len(v) /\ SubSeq(v, 1, Len(u)) = u

\* rank 0 is past MPI_Gatherv: the merged result exists
Merged == pc[0] \in {"write", "finalize", "done"}
\* every rank has left the slice loop
LoopsOver == \A r \in Ranks : pc[r] \notin {"start", "precompute", "loop", "search"}

\* a flat buffer cut into boards of NumCells chars
RECURSIVE Boards(_)
Boards(buf) ==
    IF Len(buf) < NumCells THEN << >>
    ELSE <<SubSeq(buf, 1, NumCells)>> \o Boards(SubSeq(buf, NumCells + 1, Len(buf)))

\* the file read back: records of Height lines of Width chars and a blank line
RecordLen == Height * (Width + 1) + 1
WellFormedRecord(rec) ==
    /\ Len(rec) = RecordLen
    /\ rec[RecordLen] = CH_NL
    /\ \A row \in 1 .. Height : rec[row * (Width + 1)] = CH_NL
BoardOfRecord(rec) == [c \in 1 .. NumCells |-> rec[c + ((c - 1) \div Width)]]
RECURSIVE FileRecords(_)
FileRecords(f) ==
    IF f = << >> THEN << >>
    ELSE <<SubSeq(f, 1, Min2(RecordLen, Len(f)))>>
         \o FileRecords(SubSeq(f, Min2(RecordLen, Len(f)) + 1, Len(f)))
FileBoards == [k \in 1 .. Len(FileRecords(file)) |-> BoardOfRecord(FileRecords(file)[k])]

\* the local lists of ranks r, r+1, ... one after the other
RECURSIVE ConcatFrom(_, _)
ConcatFrom(lists, r) ==
    IF r \notin DOMAIN lists THEN << >> ELSE lists[r] \o ConcatFrom(lists, r + 1)

\* Exact covers, by their definition and not by the search: the choices of
\* one placement per piece, pieces p, p+1, ... on the cells left by mask,
\* with pairwise disjoint masks and union all cells.  A cover is a sequence of
\* placement ids, one per piece.
RECURSIVE CoversFrom(_, _, _)
CoversFrom(T, p, mask) ==
    IF p >= NumPieces
    THEN IF mask = Cells THEN { << >> } ELSE {}
    ELSE UNION { { <<i>> \o rest : rest \in CoversFrom(T, p + 1, mask \cup At(T.masks[p + 1], i)) } :
                 i \in { j \in 0 .. (Len(T.masks[p + 1]) - 1) :
                           At(T.masks[p + 1], j) \cap mask = {} } }
ExactCovers(T) == CoversFrom(T, 0, {})

\* the board string of a choice of placements: letter 'A'+p on piece p's cells
BoardOf(T, cover) ==
    [c \in 1 .. NumCells |->
        LET p == CHOOSE q \in Pieces : (c - 1) \in At(T.masks[q + 1], At(cover, q))
        IN  CH_A + p]

\* how often board b occurs in the sequence q
Occurrences(q, b) == Cardinality({ k \in 1 .. Len(q) : q[k] = b })

----------------------------------------------------------------------------
(* C1: for every worker count, the merged result at the coordinator holds   *)
(* the board string of every exact cover of the board (one placement per    *)
(* piece, masks pairwise disjoint, union all cells) exactly once.           *)
C1_EveryCoverOnce ==
    Merged =>
        \A cover \in ExactCovers(Tables(0)) :
            Occurrences(Boards(recvBuf), BoardOf(Tables(0), cover)) = 1

\* reached: several workers, merged, and the instance has several covers
C1_Witness ==
    /\ Merged
    /\ world_size > 1
    /\ Cardinality(ExactCovers(Tables(0))) > 1
    /\ \E r \in Ranks : r # 0 /\ localSolutions[r] # << >>

----------------------------------------------------------------------------
\* the placements committed on the path to the current activation of rank r:
\* piece 0 at the id of the iteration (by main), and one per activation that
\* is waiting for its recursive call; as pairs <<piece, placement id>>
Committed(r) ==
    { <<0, i0[r]>> } \cup
    { <<stack[r][j].p, At(placementsByCell[r][stack[r][j].p + 1][stack[r][j].c + 1],
                          stack[r][j].k)>> :
        j \in { i \in 1 .. Len(stack[r]) : stack[r][i].at = "undo" } }

CellsOf(r, pl) == CellSet(At(placementCells[r][pl[1] + 1], pl[2]))

\* board b is the picture of the committed placements of rank r
PictureOfCommitted(r, b) ==
    /\ \A c \in 1 .. NumCells : b[c] \in Letters
    /\ \A p \in Pieces : Cardinality({ pl \in Committed(r) : pl[1] = p }) = 1
    /\ \A pl \in Committed(r) :
           { c \in Cells : b[c + 1] = CH_A + pl[1] } = CellsOf(r, pl)
    /\ \A pl, ql \in Committed(r) : pl # ql => CellsOf(r, pl) \cap CellsOf(r, ql) = {}

(* C2: every solution appended by search has all cells assigned a letter    *)
(* of A.. (no '.' left), each letter 'A'+p on exactly the cells of the one  *)
(* placement of piece p committed on the path to it, and the committed      *)
(* cell sets of different pieces are disjoint.                              *)
C2_SolutionValid ==
    [][ \A r \in Ranks :
            Len(localSolutions'[r]) > Len(localSolutions[r]) =>
                /\ Len(localSolutions'[r]) = Len(localSolutions[r]) + 1
                /\ PictureOfCommitted(r, localSolutions'[r][Len(localSolutions'[r])]) ]_vars

\* reached: a solution found at the bottom of a recursion of depth > 1
C2_Witness ==
    \E r \in Ranks :
        /\ pc[r] = "search"
        /\ Len(stack[r]) > 1
        /\ Len(localSolutions[r]) > 1
        /\ boardChars[r] = localSolutions[r][Len(localSolutions[r])]

----------------------------------------------------------------------------
\* the ids of piece 0's placements
Ids0(r) == 0 .. (totalPlacements0(r) - 1)

(* C3: the slices partition the placement ids of piece 0: a worker only     *)
(* processes ids of [0, totalPlacements0) that are its rank mod N, each     *)
(* once, and once the loops are over every id has been processed by exactly *)
(* one worker, the one whose rank is id mod N.                              *)
C3_SlicesPartition ==
    /\ \A r \in Ranks :
           /\ NoDuplicates(processed[r])
           /\ \A id \in SeqSet(processed[r]) :
                  id \in Ids0(r) /\ id % world_size = r
    /\ LoopsOver =>
           \A id \in Ids0(0) :
               { r \in Ranks : id \in SeqSet(processed[r]) } = { id % world_size }

\* reached: the loops of several workers are over, each having had work
C3_Witness ==
    /\ LoopsOver
    /\ world_size > 2
    /\ \A r \in Ranks : Len(processed[r]) > 1

----------------------------------------------------------------------------
\* the run of one worker: the solutions of all of piece 0's placements in order
Serial(T) == sliceLoop(T, sliceFirst(0), 1, << >>)

(* C4: whatever the worker count, the coordinator ends with the same total  *)
(* count and the same set of solution strings as the run with one worker;   *)
(* only the order may differ.                                               *)
C4_SameAsOneWorker ==
    (fileOpen = "open") =>
        /\ SeqSet(FileBoards) = SeqSet(Serial(Tables(0)))
        /\ Len(FileBoards) = Len(Serial(Tables(0)))
        /\ out[0][1] = <<"total", Len(Serial(Tables(0)))>>

\* reached: a run of several workers whose output order is not the one of
\* the run with one worker
C4_Witness ==
    /\ fileOpen = "open"
    /\ world_size > 1
    /\ FileBoards # Serial(Tables(0))

----------------------------------------------------------------------------
(* C5: the sequence of solutions emitted by the coordinator is the          *)
(* concatenation, in ascending rank, of the workers' local lists in         *)
(* discovery order, and each local list is the one the worker's slice       *)
(* determines: the sequence does not depend on the interleaving.            *)
C5_OutputOrder ==
    (fileOpen = "open") =>
        /\ \A k \in 1 .. Len(FileRecords(file)) : WellFormedRecord(FileRecords(file)[k])
        /\ FileBoards = ConcatFrom(localSolutions, 0)
        /\ \A r \in Ranks :
               localSolutions[r] = sliceLoop(Tables(r), sliceFirst(r), world_size, << >>)

\* reached: output made of the lists of several workers, one of them with
\* several solutions
C5_Witness ==
    /\ fileOpen = "open"
    /\ \E r, q \in Ranks : r # q /\ Len(localSolutions[r]) > 1 /\ Len(localSolutions[q]) > 0

----------------------------------------------------------------------------
\* the sum of the local counts of ranks r, r+1, ...
RECURSIVE LocalCountsFrom(_)
LocalCountsFrom(r) ==
    IF r \notin Ranks THEN 0 ELSE Len(localSolutions[r]) + LocalCountsFrom(r + 1)

(* C6: the total the coordinator computes is the sum of the workers' local  *)
(* counts and the number of records it writes: none lost, none duplicated.  *)
C6_TotalIsSum ==
    (fileOpen = "open") =>
        LET total == LocalCountsFrom(0)
        IN  /\ out[0][1] = <<"total", total>>
            /\ Len(file) = total * RecordLen
            /\ \A r \in Ranks : At(allCounts, r) = Len(localSolutions[r])
            /\ \A r \in Ranks : \A k \in 1 .. Len(localSolutions[r]) :
                   Occurrences(FileBoards, localSolutions[r][k]) = 1

\* reached: a total made of the counts of at least three workers
C6_Witness ==
    /\ fileOpen = "open"
    /\ Cardinality({ r \in Ranks : localSolutions[r] # << >> }) > 2

----------------------------------------------------------------------------
(* C7: when a call of search returns, at any depth, the used-pieces set and *)
(* the board buffer are what they were when the call was made, the callers' *)
(* activations (their board masks included) are untouched, and the result   *)
(* list has only grown; no step changes the board mask of an activation.    *)
C7_BacktrackExact ==
    [][ \A r \in Ranks :
            /\ IsPrefix(localSolutions[r], localSolutions'[r])
            /\ \A j \in 1 .. Min2(Len(stack[r]), Len(stack'[r])) :
                   stack'[r][j].boardMask = stack[r][j].boardMask
            /\ (pc[r] = "search" /\ Len(stack'[r]) < Len(stack[r])) =>
                   LET f == stack[r][Len(stack[r])]
                   IN  /\ used'[r] = f.entryUsed
                       /\ boardChars'[r] = f.entryChars
                       /\ stack'[r] = SubSeq(stack[r], 1, Len(stack[r]) - 1)
                       /\ Len(localSolutions'[r]) >= f.entryCount ]_vars

\* reached: the top-level call has returned after finding solutions below
\* at least one commit and undo
C7_Witness ==
    \E r \in Ranks :
        /\ pc[r] = "search"
        /\ stack[r] = << >>
        /\ Len(localSolutions[r]) > 1
        /\ boardChars[r] # localSolutions[r][Len(localSolutions[r])]

----------------------------------------------------------------------------
(* C8: when the output file cannot be opened the failure is reported on the *)
(* error channel, no record is written, and every rank still ends with exit *)
(* status 0, as in a run whose file was opened.                             *)
C8_OpenFailureIsSuccess ==
    /\ (fileOpen = "failed") => (err[0] = <<"open_failed">> /\ file = << >>)
    /\ (fileOpen # "failed") => (err[0] = << >>)
    /\ \A r \in Ranks : (pc[r] = "done") => (exit[r] = 0)

\* reached: the open failed with solutions to write, and rank 0 has exited
C8_Witness ==
    /\ fileOpen = "failed"
    /\ pc[0] = "done"
    /\ recvBuf # << >>

----------------------------------------------------------------------------
(* C9: in every run in which both collectives complete, whether or not the  *)
(* file could be opened, the console summary is emitted by rank 0 and by no *)
(* other rank, and it holds the total solution count and the elapsed time.  *)
C9_SummaryComplete ==
    /\ \A r \in Ranks \ {0} : out[r] = << >>
    /\ (pc[0] \in {"finalize", "done"}) =>
           /\ \E k \in 1 .. Len(out[0]) : out[0][k][1] = "total"
           /\ \E k \in 1 .. Len(out[0]) : out[0][k] = <<"elapsed">>

----------------------------------------------------------------------------
\* the cell list is an orientation of the base shape moved by one offset,
\* every cell inside the board's columns and rows
TranslateOf(cells, base) ==
    \E shape \in uniqueShapes(base) :
        /\ Len(shape) = Len(cells)
        /\ LET ox == (cells[1] % Width) - shape[1][1]
               oy == (cells[1] \div Width) - shape[1][2]
           IN  /\ ox >= 0
               /\ oy >= 0
               /\ \A k \in 1 .. Len(cells) :
                      /\ ox + shape[k][1] < Width
                      /\ oy + shape[k][2] < Height
                      /\ cells[k] = (oy + shape[k][2]) * Width + (ox + shape[k][1])

PlacementValid(r, p, i) ==
    LET cells == At(placementCells[r][p + 1], i)
        mask == At(placementMasks[r][p + 1], i)
        base == parseShape(At(cfg.shapes, p))
    IN  /\ Len(cells) = Len(base)
        /\ \A k \in 1 .. Len(cells) : cells[k] \in Cells
        /\ NoDuplicates(cells)
        /\ mask = CellSet(cells)
        /\ Cardinality(mask) = Len(cells)
        /\ TranslateOf(cells, base)

(* C10: every placement generated by precomputePlacements has as many cells *)
(* as the piece's base shape, all in [0, NUM_CELLS) and distinct, a mask    *)
(* whose bits are exactly those cells, and is the shape moved by one offset *)
(* with every column in [0, BOARD_WIDTH) and row in [0, BOARD_HEIGHT): none *)
(* wraps into the next row.  Stated of the newest placement of each piece   *)
(* while the tables grow, and of all of them when the function returns.     *)
C10_PlacementsValid ==
    \A r \in Ranks :
        /\ \A p \in Pieces :
               /\ Len(placementMasks[r][p + 1]) = Len(placementCells[r][p + 1])
               /\ Len(placementCells[r][p + 1]) > 0 =>
                      PlacementValid(r, p, Len(placementCells[r][p + 1]) - 1)
        /\ (pc[r] = "loop") =>
               \A p \in Pieces : \A i \in 0 .. (Len(placementCells[r][p + 1]) - 1) :
                   PlacementValid(r, p, i)

\* reached: in the 11 x 5 instance the loops of piece 0 are over, with
\* placements of it in the last column of a row above the last and in the
\* board's last cell
C10_Witness ==
    /\ cfg = FullInstance
    /\ pc[0] = "precompute"
    /\ pre[0].p = 1
    /\ \E i \in 1 .. Len(placementCells[0][1]) :
           (Width - 1) \in CellSet(placementCells[0][1][i])
    /\ \E i \in 1 .. Len(placementCells[0][1]) :
           (NumCells - 1) \in CellSet(placementCells[0][1][i])

----------------------------------------------------------------------------
\* the reverse index of piece p agrees with placement i on every cell
IndexedExactly(r, p, i) ==
    \A c \in Cells :
        /\ (i \in SeqSet(placementsByCell[r][p + 1][c + 1]))
               <=> (c \in CellSet(At(placementCells[r][p + 1], i)))
        /\ (i \in SeqSet(placementsByCell[r][p + 1][c + 1]))
               <=> (c \in At(placementMasks[r][p + 1], i))

(* C11: after precomputePlacements, for every piece p, placement id i and   *)
(* cell c, i is listed in placementsByCell[p][c] exactly if c is in         *)
(* placementCells[p][i], equivalently in placementMasks[p][i]; every listed *)
(* id is a placement id of p and is listed once.  Stated of the newest      *)
(* placement of each piece while the tables grow, and of all of them when   *)
(* the function has returned.                                               *)
C11_ByCellExact ==
    \A r \in Ranks :
        /\ \A p \in Pieces :
               Len(placementCells[r][p + 1]) > 0 =>
                   IndexedExactly(r, p, Len(placementCells[r][p + 1]) - 1)
        /\ (pc[r] = "loop") =>
               \A p \in Pieces :
                   /\ \A c \in Cells :
                          /\ NoDuplicates(placementsByCell[r][p + 1][c + 1])
                          /\ \A id \in SeqSet(placementsByCell[r][p + 1][c + 1]) :
                                 id \in 0 .. (Len(placementMasks[r][p + 1]) - 1)
                   /\ \A i \in 0 .. (Len(placementCells[r][p + 1]) - 1) :
                          IndexedExactly(r, p, i)

\* reached: precomputePlacements has returned on the 11 x 5 instance, and a
\* cell is covered by several placements of the last piece
C11_Witness ==
    /\ cfg = FullInstance
    /\ pc[0] = "loop"
    /\ \E c \in Cells : Len(placementsByCell[0][NumPieces][c + 1]) > 4

----------------------------------------------------------------------------
\* a coordinate list with min x = 0, min y = 0, in strictly increasing
\* lexicographic order
IsNormalized(shape) ==
    /\ shape # << >>
    /\ \A k \in 1 .. Len(shape) : shape[k][1] >= 0 /\ shape[k][2] >= 0
    /\ \E k \in 1 .. Len(shape) : shape[k][1] = 0
    /\ \E k \in 1 .. Len(shape) : shape[k][2] = 0
    /\ \A k \in 1 .. (Len(shape) - 1) : PairLess(shape[k], shape[k + 1])

(* C12: for every piece, generateOrientations returns between 1 and 8       *)
(* pairwise distinct normalized coordinate lists (min x = 0, min y = 0,     *)
(* sorted), each with the base shape's number of cells, and the set is      *)
(* closed under the dihedral group: any of the 8 transforms (optional       *)
(* x-reflection, then 0 to 3 quarter turns) of any member, normalized, is a *)
(* member.  Stated of the orientations of the piece whose loops run.        *)
C12_OrientationsClosed ==
    \A r \in Ranks :
        (pc[r] = "precompute" /\ ~preDone(pre[r])) =>
            LET os == pre[r].orientations
            IN  /\ Len(os) >= 1
                /\ Len(os) <= 8
                /\ NoDuplicates(os)
                /\ \A k \in 1 .. Len(os) :
                       /\ IsNormalized(os[k])
                       /\ Len(os[k]) = Len(parseShape(At(cfg.shapes, pre[r].p)))
                       /\ \A reflect \in 0 .. 1, rot \in 0 .. 3 :
                              Normalize(Transform(os[k], reflect, rot)) \in SeqSet(os)

\* reached: on the 11 x 5 instance the loops of the last of the 12 pieces
\* run, over fewer than 8 orientations (duplicates were merged)
C12_Witness ==
    /\ cfg = FullInstance
    /\ pc[0] = "precompute"
    /\ pre[0].p = NUM_PIECES - 1
    /\ Len(pre[0].orientations) > 1
    /\ Len(pre[0].orientations) < 8

----------------------------------------------------------------------------
\* the placements committed on the path to the top activation of rank r, in
\* the order they were committed: piece 0 by main, then one per activation
\* below the top one; as pairs <<piece, placement id>>
PathOf(r) ==
    << <<0, i0[r]>> >> \o
    [j \in 1 .. (Len(stack[r]) - 1) |->
        <<stack[r][j].p,
          At(placementsByCell[r][stack[r][j].p + 1][stack[r][j].c + 1], stack[r][j].k)>>]

\* rank r appends a solution in this step
Emits(r) == Len(localSolutions'[r]) > Len(localSolutions[r])
Emitted(r) == localSolutions'[r][Len(localSolutions'[r])]

(* C13 as claimed: in every emitted solution the piece committed k-th on    *)
(* the search path (the designated first piece being the 1st) is written    *)
(* into its cells as the k-th letter of A..L.                               *)
C13_LettersByCommitOrder ==
    [][ \A r \in Ranks :
            Emits(r) =>
                \A k \in 1 .. Len(PathOf(r)) :
                    \A c \in CellsOf(r, PathOf(r)[k]) :
                        Emitted(r)[c + 1] = CH_A + (k - 1) ]_vars

(* C13 as amended: in every emitted solution the letters identify the       *)
(* pieces by their index in the piece table: the piece committed k-th on    *)
(* the search path, being piece p of the table, is written into its cells   *)
(* as letter 'A' + p whatever k is; the designated first piece, piece 0, is *)
(* committed 1st and written as 'A'.                                        *)
C13_LettersByPieceIndex ==
    [][ \A r \in Ranks :
            Emits(r) =>
                /\ Len(PathOf(r)) = NumPieces
                /\ PathOf(r)[1][1] = 0
                /\ \A k \in 1 .. Len(PathOf(r)) :
                       \A c \in CellsOf(r, PathOf(r)[k]) :
                           Emitted(r)[c + 1] = CH_A + PathOf(r)[k][1] ]_vars

\* reached: a solution has just been emitted on a path whose commit order is
\* not the order of the piece table
C13_Witness ==
    \E r \in Ranks :
        /\ pc[r] = "search"
        /\ \A p \in Pieces : used[r][p + 1]
        /\ localSolutions[r] # << >>
        /\ boardChars[r] = localSolutions[r][Len(localSolutions[r])]
        /\ Len(stack[r]) = NumPieces - 1
        /\ \A j \in 1 .. Len(stack[r]) : stack[r][j].at = "undo"
        /\ \E j \in 1 .. Len(stack[r]) : stack[r][j].p # j

----------------------------------------------------------------------------
\* the whitespace-separated tokens of a string, in order
RECURSIVE TokensFrom(_, _, _)
TokensFrom(s, k, cur) ==
    IF k > Len(s) THEN (IF cur = << >> THEN << >> ELSE <<cur>>)
    ELSE IF s[k] = CH_SPACE
         THEN (IF cur = << >> THEN << >> ELSE <<cur>>) \o TokensFrom(s, k + 1, << >>)
         ELSE TokensFrom(s, k + 1, Append(cur, s[k]))
Tokens(s) == TokensFrom(s, 1, << >>)

(* C14: for an input made of whitespace-separated two-digit tokens,         *)
(* parseShape returns one (x, y) pair per token in input order, x the first *)
(* digit and y the second; for an input with a token whose length is not    *)
(* two it does not silently return a coordinate list: the input is rejected *)
(* (reported as an error) rather than accepted.                             *)
C14_ParseContract ==
    \A r \in Ranks :
        (pc[r] = "precompute" /\ pre[r].p = 0) =>
            LET toks == Tokens(At(cfg.shapes, 0))
            IN  /\ (\A k \in 1 .. Len(toks) : Len(toks[k]) = 2) =>
                       pre[r].baseCoords =
                           [k \in 1 .. Len(toks) |->
                               <<toks[k][1] - CH_ZERO, toks[k][2] - CH_ZERO>>]
                /\ (\E k \in 1 .. Len(toks) : Len(toks[k]) # 2) => err[r] # << >>

----------------------------------------------------------------------------
\* the board mask of an activation is fully set while a piece is unused, as
\* the activation sees its arguments
FullButUnused(mask, usedNow) ==
    mask = Cells /\ \E p \in Pieces : ~usedNow[p + 1]

(* C15: in no reachable state of the search, started from any placement of  *)
(* piece 0, is the board mask fully set while some piece is still unused:   *)
(* neither for the running activation nor for any caller as it was called;  *)
(* so the empty-cell scan of an activation that is not done always finds a  *)
(* cell, and the defensive return at line 185 is never taken.               *)
C15_NoFullDeadEnd ==
    \A r \in Ranks :
        (pc[r] = "search" /\ stack[r] # << >>) =>
            /\ \A j \in 1 .. Len(stack[r]) :
                   ~FullButUnused(stack[r][j].boardMask, stack[r][j].entryUsed)
            /\ Top(Worker(r)).at \in {"entry", "loop"} =>
                   ~FullButUnused(Top(Worker(r)).boardMask, used[r])
            /\ (Top(Worker(r)).at = "entry" /\ \E p \in Pieces : ~used[r][p + 1]) =>
                   FirstEmpty(Top(Worker(r)).boardMask, 0) < NumCells

\* reached: an activation is entered with the board fully covered (every
\* piece used), after the search has already backtracked from a solution
C15_Witness ==
    \E r \in Ranks :
        /\ pc[r] = "search"
        /\ stack[r] # << >>
        /\ Top(Worker(r)).at = "entry"
        /\ Top(Worker(r)).boardMask = Cells
        /\ localSolutions[r] # << >>

----------------------------------------------------------------------------
\* rank r commits a placement in this step: its top activation calls search
Commits(r) == pc[r] = "search" /\ Len(stack'[r]) = Len(stack[r]) + 1

\* the placement committed in such a step, as <<piece, placement id>>: the
\* caller records its p and k
CommittedNow(r) ==
    LET f == stack'[r][Len(stack[r])]
    IN  <<f.p, At(placementsByCell[r][f.p + 1][f.c + 1], f.k)>>

\* the lowest-indexed cell not in the mask
LowestEmpty(mask) == CHOOSE c \in Cells \ mask : \A d \in Cells \ mask : c <= d

(* C16: every placement committed inside search belongs to a piece that is  *)
(* unused at that moment, covers the lowest-indexed empty cell of the       *)
(* current board mask and has a mask disjoint from it (the callee gets the  *)
(* union); consequently, along the path of the recursion each piece is      *)
(* committed at most once and no cell is covered by two committed           *)
(* placements.                                                              *)
C16_CommitDiscipline ==
    [][ \A r \in Ranks :
            Commits(r) =>
                LET f == stack[r][Len(stack[r])]
                    pl == CommittedNow(r)
                    pmask == At(placementMasks[r][pl[1] + 1], pl[2])
                IN  /\ ~used[r][pl[1] + 1]
                    /\ used'[r][pl[1] + 1]
                    /\ f.boardMask # Cells
                    /\ LowestEmpty(f.boardMask) \in pmask
                    /\ pmask \cap f.boardMask = {}
                    /\ stack'[r][Len(stack'[r])].boardMask = f.boardMask \cup pmask
                    /\ \A ql \in { <<0, i0[r]>> } \cup SeqSet(Tail(PathOf(r))) :
                           /\ ql[1] # pl[1]
                           /\ CellsOf(r, ql) \cap CellsOf(r, pl) = {} ]_vars

\* reached: a third placement has been committed inside search, by an
\* activation that had already passed over other candidates
C16_Witness ==
    \E r \in Ranks :
        /\ pc[r] = "search"
        /\ Len(stack[r]) >= 4
        /\ Top(Worker(r)).at = "entry"
        /\ stack[r][Len(stack[r]) - 1].k > 0
        /\ stack[r][Len(stack[r]) - 1].p > 1

----------------------------------------------------------------------------
AllDone == \A r \in Ranks : pc[r] = "done"
\* rank r's slice is empty: its first id is past the placements of piece 0
EmptySlice(r) == pc[r] # "start" /\ sliceFirst(r) >= totalPlacements0(r)

(* C17: for every worker count, also one larger than the number of          *)
(* placements of piece 0 (the ranks from that number on have an empty       *)
(* slice), the run terminates without deadlock: every rank leaves its slice *)
(* loop, contributes to the count exchange and afterwards to the payload    *)
(* exchange, once each (a contribution, once made, is never changed), an    *)
(* empty-slice rank contributing count 0 and an empty payload; the          *)
(* coordinator eventually has the merged result and every rank ends.        *)
C17_Terminates ==
    /\ <>(AllDone /\ Merged)
    /\ [][ \A r \in Ranks :
               /\ countMsg[r] # << >> => countMsg'[r] = countMsg[r]
               /\ bufMsg[r] # << >> => bufMsg'[r] = bufMsg[r]
               /\ bufMsg'[r] # << >> => countMsg'[r] # << >>
               /\ (bufMsg[r] = << >> /\ bufMsg'[r] # << >>) => countMsg[r] # << >> ]_vars
    /\ [](\A r \in Ranks :
              /\ (pc[r] \in {"finalize", "done"}) =>
                     (countMsg[r] # << >> /\ bufMsg[r] # << >>)
              /\ (EmptySlice(r) /\ countMsg[r] # << >>) => countMsg[r] = <<0>>
              /\ (EmptySlice(r) /\ bufMsg[r] # << >>) => bufMsg[r] = << << >> >>)

\* reached: a run with more ranks than placements of piece 0 has ended, the
\* last rank never having entered the body of its slice loop
C17_Witness ==
    /\ AllDone
    /\ Merged
    /\ world_size > totalPlacements0(0)
    /\ processed[world_size - 1] = << >>
    /\ processed[0] # << >>

----------------------------------------------------------------------------
\* every rank has contributed its count; its payload
CountsIn == \A r \in Ranks : countMsg[r] # << >>
PayloadsIn == \A r \in Ranks : bufMsg[r] # << >>

(* C18: the coordinator does not go past the count exchange before all N    *)
(* ranks (itself included) have contributed their count, and does not begin *)
(* merging or writing a record before all have contributed their payload as *)
(* well; for every rank the count contribution precedes the payload         *)
(* contribution, and the payload has exactly NUM_CELLS times the reported   *)
(* count bytes, the local list being the same at both exchanges.            *)
C18_MergeAfterAll ==
    /\ (pc[0] \in {"gatherv", "gatherv_wait", "write", "finalize", "done"}) => CountsIn
    /\ (pc[0] \in {"write", "finalize", "done"}) => PayloadsIn
    /\ (file # << >> \/ fileOpen # "unopened" \/ out[0] # << >>) => (CountsIn /\ PayloadsIn)
    /\ (\E k \in 1 .. Len(recvBuf) : recvBuf[k] # CH_NUL) => (CountsIn /\ PayloadsIn)
    /\ \A r \in Ranks :
           /\ countMsg[r] # << >> => countMsg[r][1] = Len(localSolutions[r])
           /\ bufMsg[r] # << >> =>
                  /\ countMsg[r] # << >>
                  /\ Len(bufMsg[r][1]) = NumCells * countMsg[r][1]
                  /\ Len(bufMsg[r][1]) = NumCells * Len(localSolutions[r])

\* reached: the records are written, from the payloads of several ranks
C18_Witness ==
    /\ fileOpen = "open"
    /\ file # << >>
    /\ world_size > 2
    /\ \E r \in Ranks : r # 0 /\ bufMsg[r][1] # << >>
    /\ \E r \in Ranks : Len(bufMsg[r][1]) > NumCells

----------------------------------------------------------------------------
\* the number of solutions of the ranks before r
CountBefore(r) == LocalCountsFrom(0) - LocalCountsFrom(r)
\* the positions (1-based) of rank r's region of the receive buffer
Region(r) ==
    (At(displs, r) + 1) .. (At(displs, r) + NumCells * Len(localSolutions[r]))

(* C19: in the coordinator's receive buffer rank r's region starts at       *)
(* offset NUM_CELLS * (sum of the counts of ranks 0..r-1) and has length    *)
(* NUM_CELLS * count_r; the regions are pairwise disjoint, contiguous in    *)
(* rank order and cover the buffer, whose size is NUM_CELLS * (sum of all   *)
(* counts); once MPI_Gatherv has completed, the s-th record of region r is  *)
(* the s-th solution of rank r's local list.                                *)
C19_BufferLayout ==
    (pc[0] \in {"gatherv_wait", "write", "finalize", "done"}) =>
        /\ Len(displs) = world_size
        /\ Len(recvBuf) = NumCells * LocalCountsFrom(0)
        /\ \A r \in Ranks :
               /\ At(displs, r) = NumCells * CountBefore(r)
               /\ r + 1 \in Ranks =>
                      At(displs, r + 1) = At(displs, r) + NumCells * Len(localSolutions[r])
               /\ \A q \in Ranks : q # r => Region(q) \cap Region(r) = {}
        /\ UNION { Region(r) : r \in Ranks } = 1 .. Len(recvBuf)
        /\ (pc[0] # "gatherv_wait") =>
               \A r \in Ranks : \A n \in 1 .. Len(localSolutions[r]) :
                   SubSeq(recvBuf, At(displs, r) + (n - 1) * NumCells + 1,
                                   At(displs, r) + n * NumCells)
                       = localSolutions[r][n]

\* reached: a merged buffer with the regions of at least two ranks after
\* rank 0's not empty, one of them of several records
C19_Witness ==
    /\ Merged
    /\ Cardinality({ r \in Ranks : r # 0 /\ localSolutions[r] # << >>
                                   /\ At(displs, r) > 0 }) > 1
    /\ \E r \in Ranks : r # 0 /\ Len(localSolutions[r]) > 1

----------------------------------------------------------------------------
\* the number of cells of the pieces p, p+1, ... marked in usedNow
RECURSIVE UsedArea(_, _)
UsedArea(usedNow, p) ==
    IF p >= NumPieces THEN 0
    ELSE (IF usedNow[p + 1] THEN Len(parseShape(At(cfg.shapes, p))) ELSE 0)
         + UsedArea(usedNow, p + 1)

\* the three parts of the board state agree
Agree(mask, usedNow, chars) ==
    /\ \A c \in Cells : (c \in mask) <=> (chars[c + 1] # CH_DOT)
    /\ \A c \in Cells : chars[c + 1] \in Letters \cup {CH_DOT}
    /\ \A p \in Pieces : usedNow[p + 1] <=> (\E c \in Cells : chars[c + 1] = CH_A + p)
    /\ Cardinality(mask) = UsedArea(usedNow, 0)

\* the mask passed to the recursive call an activation is waiting for
NewMask(r, f) ==
    f.boardMask \cup
    At(placementMasks[r][f.p + 1], At(placementsByCell[r][f.p + 1][f.c + 1], f.k))

(* C20: in every state of a worker's search the board mask, the board       *)
(* buffer and the used set agree: a cell is in the mask exactly if the      *)
(* buffer holds a letter (not '.') there, piece p is marked used exactly if *)
(* letter 'A' + p occurs in the buffer, and the number of covered cells is  *)
(* the sum of the cell counts of the used pieces.  Stated of the mask of    *)
(* the running activation at its call, in its loop and after every undo; of *)
(* the mask passed to the call after a commit; and of main's mask when the  *)
(* top-level call has returned.                                             *)
C20_BoardStateAgrees ==
    \A r \in Ranks :
        (pc[r] = "search") =>
            IF stack[r] = << >>
            THEN Agree(At(placementMasks[r][1], i0[r]), used[r], boardChars[r])
            ELSE LET f == Top(Worker(r))
                 IN  IF f.at = "undo"
                     THEN Agree(NewMask(r, f), used[r], boardChars[r])
                     ELSE Agree(f.boardMask, used[r], boardChars[r])

\* reached: an activation below the top-level one is back in its loop after
\* an undo, solutions having been found
C20_Witness ==
    \E r \in Ranks :
        /\ pc[r] = "search"
        /\ Len(stack[r]) > 1
        /\ Top(Worker(r)).at = "loop"
        /\ Top(Worker(r)).k > 0
        /\ localSolutions[r] # << >>
        /\ boardChars[r] # localSolutions[r][Len(localSolutions[r])]

====
